---- MODULE Spec2Model ----
(***************************************************************************)
(* Model of the reporting backend in src/app.py: the loader/normalizer     *)
(* load_data and the Flask view handlers built on it.                      *)
(*                                                                         *)
(* Text is a sequence of one-character strings, so that strip, lower,      *)
(* replace, number parsing and date formatting are computed character by   *)
(* character.  Numbers are integers counting thousandths (1.0 is 1000).    *)
(* A spreadsheet cell is a record [t, n, s]: t is its kind ("nan", "none", *)
(* "num", "str", "ts"), n its number (thousandths, or yyyymmdd for a       *)
(* timestamp), s its text.                                                 *)
(***************************************************************************)
EXTENDS Integers, Sequences, FiniteSets, TLC

VARIABLES source, req, loaded, resp, vals0, vals1, vals2, applied, proc, done

vars == <<source, req, loaded, resp, vals0, vals1, vals2, applied, proc, done>>

(***************************************************************************)
(* Bounds of the model.                                                    *)
(***************************************************************************)
MaxRoiRows == 2
MaxMilestoneRows == 3
MaxScaleLen == 2

(* thousandths per unit: the fixed-point scale numbers are held in *)
Unit == 10 * 10 * 10

(***************************************************************************)
(* Characters and text.                                                    *)
(***************************************************************************)
Digits == <<"0", "1", "2", "3", "4", "5", "6", "7", "8", "9">>

UpperLetters == <<"A", "B", "C", "D", "E", "F", "G", "H", "I", "J", "K", "L", "M",
                  "N", "O", "P", "Q", "R", "S", "T", "U", "V", "W", "X", "Y", "Z">>

LowerLetters == <<"a", "b", "c", "d", "e", "f", "g", "h", "i", "j", "k", "l", "m",
                  "n", "o", "p", "q", "r", "s", "t", "u", "v", "w", "x", "y", "z">>

IsDigit(c) == \E i \in 1..10 : Digits[i] = c

DigitVal(c) == (CHOOSE i \in 1..10 : Digits[i] = c) - 1

AllDigits(s) == \A i \in 1..Len(s) : IsDigit(s[i])

RECURSIVE DigitsToNat(_)
DigitsToNat(s) ==
  IF s = <<>> THEN 0
  ELSE 10 * DigitsToNat(SubSeq(s, 1, Len(s) - 1)) + DigitVal(s[Len(s)])

RECURSIVE NatToDigits(_)
NatToDigits(n) ==
  IF n < 10 THEN <<Digits[n + 1]>>
  ELSE NatToDigits(n \div 10) \o <<Digits[(n % 10) + 1]>>

(* str.lower() of one character *)
LowerChar(c) ==
  IF \E i \in 1..26 : UpperLetters[i] = c
  THEN LowerLetters[CHOOSE i \in 1..26 : UpperLetters[i] = c]
  ELSE c

(* str.lower() *)
Lower(s) == [i \in 1..Len(s) |-> LowerChar(s[i])]

(* str.strip(): leading and trailing blanks removed *)
RECURSIVE LStrip(_)
LStrip(s) == IF s # <<>> /\ s[1] = " " THEN LStrip(Tail(s)) ELSE s

RECURSIVE RStrip(_)
RStrip(s) ==
  IF s # <<>> /\ s[Len(s)] = " " THEN RStrip(SubSeq(s, 1, Len(s) - 1)) ELSE s

Strip(s) == LStrip(RStrip(s))

(* str.replace(old, "") for a one-character old *)
RECURSIVE RemoveChar(_, _)
RemoveChar(s, c) ==
  IF s = <<>> THEN <<>>
  ELSE IF s[1] = c THEN RemoveChar(Tail(s), c)
  ELSE <<s[1]>> \o RemoveChar(Tail(s), c)

(* str.replace(old, new) for one-character old and new *)
ReplaceChar(s, old, new) == [i \in 1..Len(s) |-> IF s[i] = old THEN new ELSE s[i]]

(* t occurs in s as a contiguous run *)
Contains(s, t) ==
  \E i \in 0..(Len(s) - Len(t)) : SubSeq(s, i + 1, i + Len(t)) = t

(***************************************************************************)
(* Cells.                                                                  *)
(***************************************************************************)
NaN == [t |-> "nan", n |-> 0, s |-> <<>>]

None == [t |-> "none", n |-> 0, s |-> <<>>]

Num(v) == [t |-> "num", n |-> v, s |-> <<>>]

Str(s) == [t |-> "str", n |-> 0, s |-> s]

Ts(ymd) == [t |-> "ts", n |-> ymd, s |-> <<>>]

EmptyStr == Str(<<>>)

(* pd.isna / pd.notna of one cell *)
IsNa(c) == c.t \in {"nan", "none"}

(***************************************************************************)
(* Dates: a timestamp is the integer yyyymmdd.                             *)
(***************************************************************************)
ZeroPad(n, width) ==
  LET d == NatToDigits(n)
  IN  [i \in 1..(width - Len(d)) |-> "0"] \o d

(* Timestamp.strftime("%Y-%m-%d") *)
StrfYmd(ymd) ==
  ZeroPad(ymd \div 10000, 4) \o <<"-">> \o ZeroPad((ymd \div 100) % 100, 2)
    \o <<"-">> \o ZeroPad(ymd % 100, 2)

(* the text has the shape dddd-dd-dd *)
IsIsoShape(s) ==
  /\ Len(s) = 10
  /\ s[5] = "-" /\ s[8] = "-"
  /\ \A i \in {1, 2, 3, 4, 6, 7, 9, 10} : IsDigit(s[i])

IsLeap(y) == (y % 4 = 0 /\ y % 100 # 0) \/ y % 400 = 0

DaysIn(y, m) ==
  IF m = 2 THEN (IF IsLeap(y) THEN 29 ELSE 28)
  ELSE IF m \in {4, 6, 9, 11} THEN 30 ELSE 31

(* the text is a calendar date a Timestamp can hold (1678..2261) *)
IsDateText(s) ==
  /\ IsIsoShape(s)
  /\ LET y == DigitsToNat(SubSeq(s, 1, 4))
         m == DigitsToNat(SubSeq(s, 6, 7))
         d == DigitsToNat(SubSeq(s, 9, 10))
     IN  y \in 1678..2261 /\ m \in 1..12 /\ d \in 1..DaysIn(y, m)

DateValue(s) ==
  DigitsToNat(SubSeq(s, 1, 4)) * 10000 + DigitsToNat(SubSeq(s, 6, 7)) * 100
    + DigitsToNat(SubSeq(s, 9, 10))

(* whether pd.to_datetime parses the cell; a number counts nanoseconds    *)
(* from the epoch                                                          *)
DatetimeParses(c) == c.t \in {"ts", "num"} \/ (c.t = "str" /\ IsDateText(c.s))

(* pd.to_datetime(cell, errors="coerce"); NaT is the "nan" cell *)
ToDatetime(c) ==
  IF c.t = "ts" THEN c
  ELSE IF c.t = "str" /\ IsDateText(c.s) THEN Ts(DateValue(c.s))
  ELSE IF c.t = "num" THEN Ts(19700101)
  ELSE NaN

(***************************************************************************)
(* Numbers as text: float(text) and str(float).                            *)
(***************************************************************************)
FirstDot(s) == IF \E i \in 1..Len(s) : s[i] = "."
               THEN CHOOSE i \in 1..Len(s) : s[i] = "." /\ \A j \in 1..(i - 1) : s[j] # "."
               ELSE 0

(* the text is [sign] digits [. digits] with at least one digit *)
IsNumberText(s) ==
  LET body == IF s # <<>> /\ s[1] \in {"-", "+"} THEN Tail(s) ELSE s
      d    == FirstDot(body)
      ip   == IF d = 0 THEN body ELSE SubSeq(body, 1, d - 1)
      fp   == IF d = 0 THEN <<>> ELSE SubSeq(body, d + 1, Len(body))
  IN  AllDigits(ip) /\ AllDigits(fp) /\ Len(ip) + Len(fp) >= 1

(* the value, in thousandths, of a number text with at most three decimals *)
NumberValue(s) ==
  LET neg  == s # <<>> /\ s[1] = "-"
      body == IF s # <<>> /\ s[1] \in {"-", "+"} THEN Tail(s) ELSE s
      d    == FirstDot(body)
      ip   == IF d = 0 THEN body ELSE SubSeq(body, 1, d - 1)
      fp   == IF d = 0 THEN <<>> ELSE SubSeq(body, d + 1, Len(body))
      fp3  == SubSeq(fp \o <<"0", "0", "0">>, 1, 3)
      mag  == DigitsToNat(ip) * Unit + DigitsToNat(fp3)
  IN  IF neg THEN 0 - mag ELSE mag

(* str(x) of a float x: shortest decimal text, at least one decimal *)
RECURSIVE DropTrailingZeros(_)
DropTrailingZeros(s) ==
  IF Len(s) > 1 /\ s[Len(s)] = "0" THEN DropTrailingZeros(SubSeq(s, 1, Len(s) - 1))
  ELSE s

FloatText(v) ==
  LET mag  == IF v < 0 THEN 0 - v ELSE v
      frac == NatToDigits(mag % Unit)
      pad  == SubSeq(<<"0", "0", "0">>, 1, 3 - Len(frac)) \o frac
  IN  (IF v < 0 THEN <<"-">> ELSE <<>>)
        \o NatToDigits(mag \div Unit) \o <<".">> \o DropTrailingZeros(pad)

(* pd.to_numeric(cell, errors="coerce") *)
ToNumeric(c) ==
  IF c.t = "num" THEN c
  ELSE IF c.t = "str" /\ IsNumberText(c.s) THEN Num(NumberValue(c.s))
  ELSE NaN

(* Series.fillna(value) on one cell *)
FillNa(c, value) == IF IsNa(c) THEN value ELSE c

(* Series.astype(str) on one cell *)
AsTypeStr(c) ==
  IF c.t = "str" THEN c
  ELSE IF c.t = "num" THEN Str(FloatText(c.n))
  ELSE IF c.t = "nan" THEN Str(<<"n", "a", "n">>)
  ELSE IF c.t = "none" THEN Str(<<"N", "o", "n", "e">>)
  ELSE Str(StrfYmd(c.n) \o <<" ", "0", "0", ":", "0", "0", ":", "0", "0">>)

(***************************************************************************)
(* Tables.  A table is [cols, rows]: the set of its column names and the   *)
(* sequence of its rows, each a function from cols to cells.               *)
(***************************************************************************)
EmptyTable == [cols |-> {}, rows |-> <<>>]

numeric_cols == {"Total_Cost", "Total_Saving", "ROI", "Payback", "PxTxD"}

datetime_cols == {"Start_Date", "End_Date"}

string_cols == {"Project", "Tech_Maturity", "Data_Maturity", "Milestone", "PxTxD"}

(* lines 26-28: pd.to_numeric(. , errors="coerce").fillna(0) *)
NormalizeNumeric(col, c) ==
  IF col \in numeric_cols THEN FillNa(ToNumeric(c), Num(0)) ELSE c

(* lines 32-35: pd.to_datetime(., errors="coerce") then strftime or "" *)
NormalizeDatetime(col, c) ==
  IF col \in datetime_cols
  THEN LET x == ToDatetime(c)
       IN  IF IsNa(x) THEN EmptyStr ELSE Str(StrfYmd(x.n))
  ELSE c

(* lines 39-41: fillna("") *)
NormalizeString(col, c) ==
  IF col \in string_cols THEN FillNa(c, EmptyStr) ELSE c

(* line 44: df.where(pd.notna(df), None) *)
WhereNotNa(c) == IF IsNa(c) THEN None ELSE c

NormalizeCell(col, c) ==
  WhereNotNa(NormalizeString(col, NormalizeDatetime(col, NormalizeNumeric(col, c))))

(* the whole table through lines 25-44 *)
Normalize(table) ==
  [cols |-> table.cols,
   rows |-> [i \in 1..Len(table.rows) |->
               [col \in table.cols |-> NormalizeCell(col, table.rows[i][col])]]]

(* pd.read_excel: the source is [exists, readable, cols, rows]; reading a  *)
(* file that is not a readable workbook raises                             *)
read_excel(src) ==
  IF src.readable THEN [raised |-> FALSE, table |-> [cols |-> src.cols, rows |-> src.rows]]
  ELSE [raised |-> TRUE, table |-> EmptyTable]

(* what the caller gets when an exception leaves load_data *)
Raised == [cols |-> {}, rows |-> <<>>, raised |-> TRUE]

(* a likely slip of lines 19 and 48-50: the read not guarded by try/except *)
load_data_Unguarded(src) ==
  IF ~src.exists THEN EmptyTable
  ELSE IF read_excel(src).raised THEN Raised
  ELSE Normalize(read_excel(src).table)

(* load_data, lines 12-50 *)
load_data(src) ==
  IF ~src.exists THEN EmptyTable
  ELSE IF read_excel(src).raised THEN EmptyTable
  ELSE Normalize(read_excel(src).table)

(* the column of a table as a sequence of cells *)
Column(df, col) == [i \in 1..Len(df.rows) |-> df.rows[i][col]]

(***************************************************************************)
(* The median-based ROI normalization of get_roi and get_geometry4_roi.    *)
(***************************************************************************)
(* a sequence of numbers in ascending order (insertion sort, which keeps   *)
(* the order of equal elements)                                            *)
RECURSIVE InsertNumber(_, _)
InsertNumber(sorted, v) ==
  IF sorted = <<>> THEN <<v>>
  ELSE IF v < sorted[1] THEN <<v>> \o sorted
  ELSE <<sorted[1]>> \o InsertNumber(Tail(sorted), v)

RECURSIVE SortNumbers(_)
SortNumbers(s) ==
  IF s = <<>> THEN <<>>
  ELSE InsertNumber(SortNumbers(SubSeq(s, 1, Len(s) - 1)), s[Len(s)])

(* the numbers of the cells that are not NaN *)
RECURSIVE NotNaValues(_)
NotNaValues(cells) ==
  IF cells = <<>> THEN <<>>
  ELSE IF IsNa(cells[1]) THEN NotNaValues(Tail(cells))
  ELSE <<cells[1].n>> \o NotNaValues(Tail(cells))

(* Series.median(): NaN cells are skipped; the median of nothing is NaN.   *)
(* The result is [nan, twice]: twice the median, so that the mean of the   *)
(* two middle values stays an integer.                                     *)
Median(cells) ==
  LET v == SortNumbers(NotNaValues(cells))
      k == Len(v)
  IN  IF k = 0 THEN [nan |-> TRUE, twice |-> 0]
      ELSE IF k % 2 = 1 THEN [nan |-> FALSE, twice |-> 2 * v[(k + 1) \div 2]]
      ELSE [nan |-> FALSE, twice |-> v[k \div 2] + v[(k \div 2) + 1]]

(* a likely slip of line 78: the lower limit of the test left out *)
InUnitRange_NoLowerLimit(median_val) ==
  ~median_val.nan /\ median_val.twice < 2 * Unit

(* line 78: -1 < median_val < 1 (false for NaN) *)
InUnitRange(median_val) ==
  ~median_val.nan /\ 0 - 2 * Unit < median_val.twice /\ median_val.twice < 2 * Unit

(* line 269: median_val and -1 < median_val < 1 (0.0 is falsy, NaN truthy) *)
InUnitRangeTruthy(median_val) ==
  (median_val.nan \/ median_val.twice # 0) /\ InUnitRange(median_val)

(* df["ROI"] * 100 *)
Times100(cells) ==
  [i \in 1..Len(cells) |-> IF IsNa(cells[i]) THEN cells[i] ELSE Num(cells[i].n * 100)]

(* lines 77-79 of get_roi *)
MedianScale(cells) ==
  IF InUnitRange(Median(cells)) THEN Times100(cells) ELSE cells

(* lines 268-270 of get_geometry4_roi *)
MedianScaleTruthy(cells) ==
  IF InUnitRangeTruthy(Median(cells)) THEN Times100(cells) ELSE cells

(* round(2) of a number: to the nearest hundredth, a tie to the even one *)
Round2(v) ==
  LET q == v \div 10
      r == v - 10 * q
  IN  IF r < 5 THEN 10 * q
      ELSE IF r > 5 THEN 10 * (q + 1)
      ELSE IF q % 2 = 0 THEN 10 * q ELSE 10 * (q + 1)

(* lines 65-73 and 257-265: the ROI column as text, "%" removed, ","       *)
(* replaced by ".", then pd.to_numeric(errors="coerce")                    *)
CleanRoiCell(c) ==
  ToNumeric(Str(ReplaceChar(RemoveChar(AsTypeStr(c).s, "%"), ",", ".")))

CleanRoi(df) == [i \in 1..Len(df.rows) |-> CleanRoiCell(df.rows[i]["ROI"])]

(* the table with its ROI column replaced *)
WithRoi(df, cells) ==
  [cols |-> df.cols,
   rows |-> [i \in 1..Len(df.rows) |-> [df.rows[i] EXCEPT !["ROI"] = cells[i]]]]

(* df.dropna(subset=[col]) *)
RECURSIVE DropNaRows(_, _)
DropNaRows(rows, col) ==
  IF rows = <<>> THEN <<>>
  ELSE IF IsNa(rows[1][col]) THEN DropNaRows(Tail(rows), col)
  ELSE <<rows[1]>> \o DropNaRows(Tail(rows), col)

(* df.sort_values(by="ROI", ascending=True); on tables this small numpy    *)
(* sorts by insertion, which keeps the order of equal keys                 *)
RECURSIVE InsertRow(_, _)
InsertRow(sorted, row) ==
  IF sorted = <<>> THEN <<row>>
  ELSE IF row["ROI"].n < sorted[1]["ROI"].n THEN <<row>> \o sorted
  ELSE <<sorted[1]>> \o InsertRow(Tail(sorted), row)

RECURSIVE SortByRoi(_)
SortByRoi(rows) ==
  IF rows = <<>> THEN <<>>
  ELSE InsertRow(SortByRoi(SubSeq(rows, 1, Len(rows) - 1)), rows[Len(rows)])

(* df[["Project", "ROI"]].to_dict(orient="records") after round(2) *)
RoiRecord(row) == [Project |-> row["Project"], ROI |-> Num(Round2(row["ROI"].n))]

(***************************************************************************)
(* Project filter and responses.                                           *)
(***************************************************************************)
Geometry40 == <<"G", "e", "o", "m", "e", "t", "r", "y", " ", "4", ".", "0">>

(* df["Project"].astype(str).str.strip().str.lower() == project_name.lower() *)
ProjectMatches(row, project_name) ==
  Lower(Strip(AsTypeStr(row["Project"]).s)) = Lower(project_name)

RECURSIVE FilterProject(_, _)
FilterProject(rows, project_name) ==
  IF rows = <<>> THEN <<>>
  ELSE IF ProjectMatches(rows[1], project_name)
       THEN <<rows[1]>> \o FilterProject(Tail(rows), project_name)
  ELSE FilterProject(Tail(rows), project_name)

(* jsonify(body) and jsonify(body), status *)
Ok(body) == [status |-> 200, body |-> body]

Error(status, message) == [status |-> status, body |-> [error |-> message]]

(* an exception leaving a view function: Flask answers 500 *)
Unhandled(exception) == [status |-> 500, body |-> [exception |-> exception]]

KeyError(col) == Unhandled(<<"KeyError", col>>)

(* get_roi, lines 59-92 *)
get_roi(df) ==
  IF "ROI" \in df.cols /\ "Project" \in df.cols
  THEN LET scaled == WithRoi(df, MedianScale(CleanRoi(df)))
           kept   == SortByRoi(DropNaRows(scaled.rows, "ROI"))
       IN  Ok([i \in 1..Len(kept) |-> RoiRecord(kept[i])])
  ELSE Ok(<<>>)

(* get_geometry4_roi, lines 249-290 *)
get_geometry4_roi(df) ==
  IF "ROI" \in df.cols /\ "Project" \in df.cols
  THEN LET scaled     == WithRoi(df, MedianScaleTruthy(CleanRoi(df)))
           project_df == FilterProject(DropNaRows(scaled.rows, "ROI"), Geometry40)
       IN  IF project_df = <<>>
           THEN Error(404, <<"No ROI data found for '">> \o Geometry40 \o <<"'">>)
           ELSE Ok(RoiRecord(project_df[1]))
  ELSE Error(400, <<"Missing columns 'Project' or 'ROI'">>)

(***************************************************************************)
(* Helpers shared by the other views.                                      *)
(***************************************************************************)
(* [c for c in cols if c not in df.columns] *)
RECURSIVE MissingColumns(_, _)
MissingColumns(cols, df) ==
  IF cols = <<>> THEN <<>>
  ELSE IF cols[1] \in df.cols THEN MissingColumns(Tail(cols), df)
  ELSE <<cols[1]>> \o MissingColumns(Tail(cols), df)

(* ", ".join(names) *)
RECURSIVE JoinNames(_)
JoinNames(names) ==
  IF names = <<>> THEN <<>>
  ELSE IF Len(names) = 1 THEN <<names[1]>>
  ELSE <<names[1], ", ">> \o JoinNames(Tail(names))

(* str(names) of a list of strings: ['a', 'b'] *)
RECURSIVE QuotedNames(_)
QuotedNames(names) ==
  IF names = <<>> THEN <<>>
  ELSE IF Len(names) = 1 THEN <<"'", names[1], "'">>
  ELSE <<"'", names[1], "'", ", ">> \o QuotedNames(Tail(names))

ListRepr(names) == <<"[">> \o QuotedNames(names) \o <<"]">>

(* df[cols].to_dict(orient="records") *)
Records(rows, cols) ==
  [i \in 1..Len(rows) |-> [c \in cols |-> rows[i][c]]]

(* a / b rounded to the nearest integer, a tie to the even one (b > 0) *)
RoundDiv(a, b) ==
  LET q == a \div b
      r == a - q * b
  IN  IF 2 * r < b THEN q
      ELSE IF 2 * r > b THEN q + 1
      ELSE IF q % 2 = 0 THEN q ELSE q + 1

(* Series.sum() of a numeric column *)
RECURSIVE SumCells(_)
SumCells(cells) ==
  IF cells = <<>> THEN 0
  ELSE (IF IsNa(cells[1]) THEN 0 ELSE cells[1].n) + SumCells(Tail(cells))

(* the distinct cells that are not NaN, in the order they first appear *)
RECURSIVE Distinct(_)
Distinct(cells) ==
  IF cells = <<>> THEN <<>>
  ELSE LET front == Distinct(SubSeq(cells, 1, Len(cells) - 1))
           last  == cells[Len(cells)]
       IN  IF IsNa(last) \/ \E i \in 1..Len(front) : front[i] = last
           THEN front ELSE Append(front, last)

CountOf(cells, v) == Cardinality({i \in 1..Len(cells) : cells[i] = v})

(* Series.value_counts(): [name, count] by descending count, equal counts  *)
(* in the order the values first appear                                    *)
RECURSIVE InsertCount(_, _)
InsertCount(sorted, e) ==
  IF sorted = <<>> THEN <<e>>
  ELSE IF e.count > sorted[1].count THEN <<e>> \o sorted
  ELSE <<sorted[1]>> \o InsertCount(Tail(sorted), e)

RECURSIVE SortCounts(_)
SortCounts(s) ==
  IF s = <<>> THEN <<>>
  ELSE InsertCount(SortCounts(SubSeq(s, 1, Len(s) - 1)), s[Len(s)])

ValueCounts(cells) ==
  LET d == Distinct(cells)
  IN  SortCounts([i \in 1..Len(d) |-> [name |-> d[i], count |-> CountOf(cells, d[i])]])

(* merged["count"].sum() *)
RECURSIVE SumCounts(_)
SumCounts(counts) ==
  IF counts = <<>> THEN 0 ELSE counts[1].count + SumCounts(Tail(counts))

(* a likely slip of the grouping: only the first project of a milestone kept *)
GroupProjects_FirstOnly(rows, key) ==
  LET all == SelectSeq(rows, LAMBDA r : r["Milestone"] = key)
  IN  IF all = <<>> THEN <<>> ELSE <<all[1]["Project"]>>

(* df.groupby("Milestone")["Project"].apply(list) for one milestone *)
GroupProjects(rows, key) ==
  LET all == SelectSeq(rows, LAMBDA r : r["Milestone"] = key)
  IN  [i \in 1..Len(all) |-> all[i]["Project"]]

(***************************************************************************)
(* The views.                                                              *)
(***************************************************************************)
(* get_projects, lines 53-56 *)
get_projects(df) == Ok(Records(df.rows, df.cols))

(* get_cost_saving, lines 96-119 *)
get_cost_saving(df) ==
  LET cols    == <<"Project", "Total_Cost", "Total_Saving">>
      missing == MissingColumns(cols, df)
      Clean(row) ==
        [Project      |-> WhereNotNa(FillNa(row["Project"], EmptyStr)),
         Total_Cost   |-> FillNa(ToNumeric(row["Total_Cost"]), Num(0)),
         Total_Saving |-> FillNa(ToNumeric(row["Total_Saving"]), Num(0))]
  IN  IF missing # <<>> THEN Ok(<<>>)
      ELSE Ok([i \in 1..Len(df.rows) |-> Clean(df.rows[i])])

(* get_kpis, lines 122-132; the mean of no rows is NaN *)
get_kpis(df) ==
  LET Total(col) == IF col \in df.cols THEN Num(SumCells(Column(df, col))) ELSE Num(0)
      avg_roi ==
        IF "ROI" \notin df.cols THEN Num(0)
        ELSE IF df.rows = <<>> THEN NaN
        ELSE Num(10 * RoundDiv(SumCells(Column(df, "ROI")), 10 * Len(df.rows)))
  IN  Ok([totalCost |-> Total("Total_Cost"), totalSaving |-> Total("Total_Saving"),
          avgROI |-> avg_roi])

(* get_timeline, lines 135-140 *)
get_timeline(df) ==
  IF "Start_Date" \in df.cols /\ "End_Date" \in df.cols
  THEN IF "Project" \notin df.cols THEN KeyError("Project")
       ELSE Ok(Records(df.rows, {"Project", "Start_Date", "End_Date"}))
  ELSE Ok(<<>>)

(* get_maturity, lines 143-150 *)
get_maturity(df) ==
  IF "Tech_Maturity" \in df.cols
  THEN LET counts == ValueCounts(Column(df, "Tech_Maturity"))
       IN  Ok([i \in 1..Len(counts) |->
                 [name |-> counts[i].name, value |-> counts[i].count]])
  ELSE Ok(<<>>)

(* get_ptd, lines 153-162 *)
get_ptd(df) ==
  LET required_cols == {"Project", "Payback", "Tech_Maturity", "Data_Maturity"}
  IN  IF required_cols \subseteq df.cols THEN Ok(Records(df.rows, required_cols))
      ELSE Ok(<<>>)

(* get_milestone_distribution, lines 165-194 *)
get_milestone_distribution(df) ==
  IF "Milestone" \in df.cols /\ "Project" \in df.cols
  THEN LET milestone_counts == ValueCounts(Column(df, "Milestone"))
           total == SumCounts(milestone_counts)
       IN  Ok([i \in 1..Len(milestone_counts) |->
                 [name     |-> milestone_counts[i].name,
                  count    |-> milestone_counts[i].count,
                  projects |-> GroupProjects(df.rows, milestone_counts[i].name),
                  value    |-> Num(10 * RoundDiv(milestone_counts[i].count * 10000, total))]])
  ELSE Ok(<<>>)

(* px_tx_d, lines 196-205 *)
px_tx_d(df) ==
  IF "Project" \in df.cols /\ "PxTxD" \in df.cols
  THEN LET rows == [i \in 1..Len(df.rows) |->
                      [df.rows[i] EXCEPT !["PxTxD"] = ToNumeric(@)]]
       IN  Ok(Records(DropNaRows(rows, "PxTxD"), {"Project", "PxTxD"}))
  ELSE Ok(<<>>)

(* get_geometry4_savings, lines 209-247 *)
get_geometry4_savings(df) ==
  LET years   == <<"2026_Saving", "2027_Saving", "2028_Saving">>
      cols    == <<"Project">> \o years \o <<"Total_Cost">>
      missing == MissingColumns(cols, df)
      project_df == FilterProject(df.rows, Geometry40)
      Clean(row) ==
        [c \in {cols[i] : i \in 1..Len(cols)} |->
           IF c = "Project" THEN WhereNotNa(FillNa(row[c], EmptyStr))
           ELSE FillNa(ToNumeric(row[c]), Num(0))]
  IN  IF missing # <<>>
      THEN Error(400, <<"Missing columns: ">> \o ListRepr(missing))
      ELSE IF project_df = <<>>
      THEN Error(404, <<"No data found for project '">> \o Geometry40 \o <<"'">>)
      ELSE Ok(Clean(project_df[1]))

(* get_geometry4_project, lines 293-310 *)
get_geometry4_project(df) ==
  IF "Project" \notin df.cols THEN KeyError("Project")
  ELSE LET project_df == FilterProject(df.rows, Geometry40)
       IN  IF project_df = <<>>
           THEN Error(404, <<"No data found for project '">> \o Geometry40 \o <<"'">>)
           ELSE Ok(project_df[1])

(* line 333: a per-project ROI below 10 is taken for a fraction *)
RoiThreshold == 10

(* lines 329-331: float(row[col]) if the column is there and not null *)
FloatOrZero(df, row, col) ==
  IF col \in df.cols /\ ~IsNa(row[col]) THEN row[col].n ELSE 0

(* get_kpis_for_project, lines 313-342 *)
get_kpis_for_project(df, project_name) ==
  IF "Project" \notin df.cols THEN KeyError("Project")
  ELSE LET project_df == FilterProject(df.rows, project_name)
           row == project_df[1]
           roi == FloatOrZero(df, row, "ROI")
       IN  IF project_df = <<>>
           THEN Error(404, <<"No data found for project '">> \o project_name \o <<"'">>)
           ELSE Ok([project     |-> project_name,
                    totalCost   |-> Num(FloatOrZero(df, row, "Total_Cost")),
                    totalSaving |-> Num(FloatOrZero(df, row, "Total_Saving")),
                    ROI |-> Num(Round2(IF roi < RoiThreshold * Unit
                                       THEN roi * 100 ELSE roi))])

(* the four phases, line 381 *)
phases == <<"Ideation", "Framing & scoping", "Development & industrialization",
            "Roll-out & deployment">>

(* lines 386, 398, 408: pd.isna(x) or x == "" *)
IsBlankDate(c) == IsNa(c) \/ c = EmptyStr

(* lines 389-392: pd.to_datetime(x).strftime("%Y-%m-%d"), or str(x) when   *)
(* that raises                                                             *)
RenderDate(c) ==
  IF DatetimeParses(c) THEN Str(StrfYmd(ToDatetime(c).n)) ELSE AsTypeStr(c)

(* a likely slip of lines 395-404: the end taken from the next phase that  *)
(* has a date, instead of the phase that follows                           *)
PhaseEnd_NextPresent(row, i) ==
  LET later == {j \in (i + 1)..Len(phases) : ~IsBlankDate(row[phases[j]])}
  IN  IF later # {}
      THEN RenderDate(row[phases[CHOOSE j \in later : \A k \in later : j <= k]])
      ELSE IF IsBlankDate(row["End_Date"]) THEN None ELSE RenderDate(row["End_Date"])

(* lines 395-414: the end of phase i *)
PhaseEnd(row, i) ==
  LET next_date == IF i + 1 <= Len(phases) THEN row[phases[i + 1]] ELSE row["End_Date"]
  IN  IF IsBlankDate(next_date) THEN None ELSE RenderDate(next_date)

(* lines 383-420: the loop over the phases *)
RECURSIVE Timeline(_, _)
Timeline(row, i) ==
  IF i > Len(phases) THEN <<>>
  ELSE IF IsBlankDate(row[phases[i]]) THEN Timeline(row, i + 1)
  ELSE <<[phase |-> phases[i], start |-> RenderDate(row[phases[i]]),
          end |-> PhaseEnd(row, i)]>> \o Timeline(row, i + 1)

(* get_geometry4_timeline, lines 359-423 *)
get_geometry4_timeline(df) ==
  LET required_columns == <<"Project", "Start_Date", "End_Date">> \o phases
      missing_cols == MissingColumns(required_columns, df)
      project_df   == FilterProject(df.rows, Geometry40)
  IN  IF missing_cols # <<>>
      THEN Error(400, <<"Missing columns: ">> \o JoinNames(missing_cols))
      ELSE IF project_df = <<>>
      THEN Error(404, <<"No data found for Geometry 4.0">>)
      ELSE Ok(Timeline(project_df[1], 1))

(***************************************************************************)
(* The backing sources the model draws from.                               *)
(***************************************************************************)
Absent == [exists |-> FALSE, readable |-> FALSE, cols |-> {}, rows |-> <<>>]

Corrupt == [exists |-> TRUE, readable |-> FALSE, cols |-> {}, rows |-> <<>>]

File(cols, rows) == [exists |-> TRUE, readable |-> TRUE, cols |-> cols, rows |-> rows]

(* all sequences over S of length at most n *)
SeqsUpTo(S, n) == UNION {[1..k -> S] : k \in 0..n}

GeometryPadded == <<" ">> \o Lower(Geometry40) \o <<" ">>

ProjectA == <<"P", "r", "o", "j", "e", "c", "t", " ", "A">>

ProjectB == <<"P", "r", "o", "j", "e", "c", "t", " ", "B">>

(* sources for the ROI views: Project and ROI columns *)
RoiProjectCells == {Str(ProjectA), Str(ProjectB), Str(GeometryPadded)}

RoiCells == {Num(200), Num(50000), Num(500), Num(0 - 500), Num(0), Num(1234),
             Str(<<"5", "0", "%">>), Str(<<"0", ",", "2">>), Str(<<"0", ".", "2">>), NaN}

RoiRows == {[c \in {"Project", "ROI"} |-> IF c = "Project" THEN pr ELSE ro] :
              pr \in RoiProjectCells, ro \in RoiCells}

RoiSources == {File({"Project", "ROI"}, rows) : rows \in SeqsUpTo(RoiRows, MaxRoiRows)}

(* sources for the milestone view: Project and Milestone columns *)
MilestoneCells == {Str(<<"A", "l", "p", "h", "a">>), Str(<<"B", "e", "t", "a">>), NaN}

MilestoneRows ==
  {[c \in {"Project", "Milestone"} |-> IF c = "Project" THEN pr ELSE ms] :
     pr \in {Str(ProjectA), Str(ProjectB)}, ms \in MilestoneCells}

MilestoneSources ==
  {File({"Project", "Milestone"}, rows) : rows \in SeqsUpTo(MilestoneRows, MaxMilestoneRows)}

(* sources with every column of the data model, or all but one or two *)
SavingCols == {"2026_Saving", "2027_Saving", "2028_Saving"}

PhaseCols == {phases[i] : i \in 1..Len(phases)}

AllCols == numeric_cols \cup datetime_cols \cup string_cols \cup SavingCols \cup PhaseCols

DefaultCell(col, project) ==
  IF col = "Project" THEN Str(project)
  ELSE IF col = "ROI" THEN Num(1450)
  ELSE IF col \in numeric_cols \cup SavingCols THEN Num(120000)
  ELSE IF col \in datetime_cols \cup PhaseCols THEN Ts(20240105)
  ELSE Str(<<"H", "i", "g", "h">>)

DefaultRow(cols, project) == [c \in cols |-> DefaultCell(c, project)]

ColumnSets == {AllCols \ d : d \in {x \in SUBSET AllCols : Cardinality(x) <= 2}} \cup {{}}

ColumnSources ==
  UNION {{File(cols, <<>>), File(cols, <<DefaultRow(cols, GeometryPadded)>>),
          File(cols, <<DefaultRow(cols, ProjectA)>>)} : cols \in ColumnSets}

(* sources for the phase timeline: the Geometry 4.0 row takes every        *)
(* combination of phase cells; another row may precede or follow it        *)
PhaseCells == {NaN, EmptyStr, Ts(20240310), Str(<<"s", "o", "o", "n">>)}

EndDateCells == {NaN, Str(<<"2", "0", "2", "4", "-", "1", "2", "-", "3", "1">>),
                 Str(<<"2", "0", "2", "4", "-", "1", "3", "-", "0", "1">>)}

TimelineRows ==
  {[c \in AllCols |->
      IF c = phases[1] THEN ph[1] ELSE IF c = phases[2] THEN ph[2]
      ELSE IF c = phases[3] THEN ph[3] ELSE IF c = phases[4] THEN ph[4]
      ELSE IF c = "End_Date" THEN e
      ELSE DefaultCell(c, Geometry40)] :
     ph \in [1..4 -> PhaseCells], e \in EndDateCells}

TimelineSources ==
  {File(AllCols, <<r>>) : r \in TimelineRows}
    \cup {File(AllCols, <<DefaultRow(AllCols, ProjectA), r>>) : r \in TimelineRows}
    \cup {File(AllCols, <<r, DefaultRow(AllCols, GeometryPadded)>>) : r \in TimelineRows}

Sources == {Absent, Corrupt} \cup ColumnSources

(* the project names asked of /api/kpis/<project_name> *)
RequestNames == {Geometry40, Lower(ProjectA), <<"Z", "e", "t", "a">>}

(***************************************************************************)
(* Requests.  Each handler runs as one step: it loads the table and        *)
(* answers from it.                                                        *)
(***************************************************************************)
NoRequest == [ep |-> "none", name |-> <<>>]

NoResponse == [status |-> 0, body |-> <<>>]

NoDone == [ep |-> "none", name |-> <<>>, seen |-> Absent, resp |-> NoResponse]

Procs == {1, 2}

Idle == [pc |-> "idle", ep |-> "none", name |-> <<>>, df |-> EmptyTable, seen |-> Absent]

(* the view function routed at an endpoint *)
View(ep, name, df) ==
  CASE ep = "projects" -> get_projects(df)
    [] ep = "roi" -> get_roi(df)
    [] ep = "cost-saving" -> get_cost_saving(df)
    [] ep = "kpis" -> get_kpis(df)
    [] ep = "timeline" -> get_timeline(df)
    [] ep = "maturity" -> get_maturity(df)
    [] ep = "ptd" -> get_ptd(df)
    [] ep = "milestones" -> get_milestone_distribution(df)
    [] ep = "px_tx_d" -> px_tx_d(df)
    [] ep = "future-savings/geometry4" -> get_geometry4_savings(df)
    [] ep = "roi/geometry4" -> get_geometry4_roi(df)
    [] ep = "projects/geometry4" -> get_geometry4_project(df)
    [] ep = "kpis/<project_name>" -> get_kpis_for_project(df, name)
    [] ep = "timeline/geometry4" -> get_geometry4_timeline(df)

(* what a request to a view leaves alone *)
serving == <<source, vals0, vals1, vals2, applied, proc, done>>

(* GET /api/projects: get_projects, lines 53-56 *)
GetProjects ==
  /\ req' = [ep |-> "projects", name |-> <<>>]
  /\ loaded' = load_data(source)
  /\ resp' = get_projects(loaded')
  /\ UNCHANGED serving

(* GET /api/roi: get_roi, lines 59-92 *)
GetRoi ==
  /\ req' = [ep |-> "roi", name |-> <<>>]
  /\ loaded' = load_data(source)
  /\ resp' = get_roi(loaded')
  /\ UNCHANGED serving

(* GET /api/cost-saving: get_cost_saving, lines 96-119 *)
GetCostSaving ==
  /\ req' = [ep |-> "cost-saving", name |-> <<>>]
  /\ loaded' = load_data(source)
  /\ resp' = get_cost_saving(loaded')
  /\ UNCHANGED serving

(* GET /api/kpis: get_kpis, lines 122-132 *)
GetKpis ==
  /\ req' = [ep |-> "kpis", name |-> <<>>]
  /\ loaded' = load_data(source)
  /\ resp' = get_kpis(loaded')
  /\ UNCHANGED serving

(* GET /api/timeline: get_timeline, lines 135-140 *)
GetTimeline ==
  /\ req' = [ep |-> "timeline", name |-> <<>>]
  /\ loaded' = load_data(source)
  /\ resp' = get_timeline(loaded')
  /\ UNCHANGED serving

(* GET /api/maturity: get_maturity, lines 143-150 *)
GetMaturity ==
  /\ req' = [ep |-> "maturity", name |-> <<>>]
  /\ loaded' = load_data(source)
  /\ resp' = get_maturity(loaded')
  /\ UNCHANGED serving

(* GET /api/ptd: get_ptd, lines 153-162 *)
GetPtd ==
  /\ req' = [ep |-> "ptd", name |-> <<>>]
  /\ loaded' = load_data(source)
  /\ resp' = get_ptd(loaded')
  /\ UNCHANGED serving

(* GET /api/milestones: get_milestone_distribution, lines 165-194 *)
GetMilestoneDistribution ==
  /\ req' = [ep |-> "milestones", name |-> <<>>]
  /\ loaded' = load_data(source)
  /\ resp' = get_milestone_distribution(loaded')
  /\ UNCHANGED serving

(* GET /api/px_tx_d: px_tx_d, lines 196-205 *)
PxTxD ==
  /\ req' = [ep |-> "px_tx_d", name |-> <<>>]
  /\ loaded' = load_data(source)
  /\ resp' = px_tx_d(loaded')
  /\ UNCHANGED serving

(* GET /api/future-savings/geometry4: get_geometry4_savings, lines 209-247 *)
GetGeometry4Savings ==
  /\ req' = [ep |-> "future-savings/geometry4", name |-> <<>>]
  /\ loaded' = load_data(source)
  /\ resp' = get_geometry4_savings(loaded')
  /\ UNCHANGED serving

(* GET /api/roi/geometry4: get_geometry4_roi, lines 249-290 *)
GetGeometry4Roi ==
  /\ req' = [ep |-> "roi/geometry4", name |-> <<>>]
  /\ loaded' = load_data(source)
  /\ resp' = get_geometry4_roi(loaded')
  /\ UNCHANGED serving

(* GET /api/projects/geometry4: get_geometry4_project, lines 293-310 *)
GetGeometry4Project ==
  /\ req' = [ep |-> "projects/geometry4", name |-> <<>>]
  /\ loaded' = load_data(source)
  /\ resp' = get_geometry4_project(loaded')
  /\ UNCHANGED serving

(* GET /api/kpis/<project_name>: get_kpis_for_project, lines 313-342 *)
GetKpisForProject ==
  \E project_name \in RequestNames :
    /\ req' = [ep |-> "kpis/<project_name>", name |-> project_name]
    /\ loaded' = load_data(source)
    /\ resp' = get_kpis_for_project(loaded', project_name)
    /\ UNCHANGED serving

(* GET /api/timeline/geometry4: get_geometry4_timeline, lines 359-423 *)
GetGeometry4Timeline ==
  /\ req' = [ep |-> "timeline/geometry4", name |-> <<>>]
  /\ loaded' = load_data(source)
  /\ resp' = get_geometry4_timeline(loaded')
  /\ UNCHANGED serving

InitRest ==
  /\ req = NoRequest
  /\ loaded = EmptyTable
  /\ resp = NoResponse
  /\ vals0 = <<>> /\ vals1 = <<>> /\ vals2 = <<>> /\ applied = 0
  /\ proc = [p \in Procs |-> Idle]
  /\ done = NoDone

Init == source \in Sources /\ InitRest

Next ==
  \/ GetProjects
  \/ GetRoi
  \/ GetCostSaving
  \/ GetKpis
  \/ GetTimeline
  \/ GetMaturity
  \/ GetPtd
  \/ GetMilestoneDistribution
  \/ PxTxD
  \/ GetGeometry4Savings
  \/ GetGeometry4Roi
  \/ GetGeometry4Project
  \/ GetKpisForProject
  \/ GetGeometry4Timeline

Spec == Init /\ [][Next]_vars

(* load_data alone, over every source of the model *)
LoadData ==
  /\ req = NoRequest
  /\ req' = [ep |-> "load_data", name |-> <<>>]
  /\ loaded' = load_data(source)
  /\ UNCHANGED <<source, resp, vals0, vals1, vals2, applied, proc, done>>

InitLoad ==
  /\ source \in Sources \cup RoiSources \cup MilestoneSources \cup TimelineSources
  /\ InitRest

NextLoad == LoadData

SpecLoad == InitLoad /\ [][NextLoad]_vars

(* the ROI views over the ROI sources *)
InitRoi == source \in RoiSources /\ InitRest

NextRoi == GetRoi \/ GetGeometry4Roi

SpecRoi == InitRoi /\ [][NextRoi]_vars

(* the milestone view over the milestone sources *)
InitMilestone == source \in MilestoneSources /\ InitRest

NextMilestone == GetMilestoneDistribution \/ GetProjects

SpecMilestone == InitMilestone /\ [][NextMilestone]_vars

(* the timeline views over the timeline sources *)
InitTimeline == source \in TimelineSources /\ InitRest

NextTimeline == GetGeometry4Timeline \/ GetTimeline

SpecTimeline == InitTimeline /\ [][NextTimeline]_vars

(* the median scaling step applied twice to a list of parsed ROI values *)
ScaleValues == {Num(0 - 1000), Num(0 - 500), Num(0 - 10), Num(0 - 5), Num(0), Num(5),
                Num(10), Num(500), Num(999), Num(1000), Num(2500), NaN}

ApplyScale ==
  /\ applied < 2
  /\ applied' = applied + 1
  /\ vals1' = IF applied = 0 THEN MedianScale(vals0) ELSE vals1
  /\ vals2' = IF applied = 1 THEN MedianScale(vals1) ELSE vals2
  /\ UNCHANGED <<source, req, loaded, resp, vals0, proc, done>>

InitScale ==
  /\ source = Absent
  /\ req = NoRequest /\ loaded = EmptyTable /\ resp = NoResponse
  /\ vals0 \in SeqsUpTo(ScaleValues, MaxScaleLen)
  /\ vals1 = <<>> /\ vals2 = <<>> /\ applied = 0
  /\ proc = [p \in Procs |-> Idle]
  /\ done = NoDone

NextScale == ApplyScale

SpecScale == InitScale /\ [][NextScale]_vars

(***************************************************************************)
(* C4                                                                      *)
(***************************************************************************)
(* C4 as stated: for every list of parsed ROI values, a second application *)
(* of the median scaling step leaves every value unchanged.                *)
C4_Idempotent == applied = 2 => vals2 = vals1

(* the median of the values is undefined or at least 0.01 in magnitude, or *)
(* no value differs from 0                                                 *)
StableUnderScaling(cells) ==
  LET m == Median(cells)
  IN  \/ m.nan
      \/ m.twice >= 2 * 10
      \/ m.twice <= 0 - 2 * 10
      \/ \A i \in 1..Len(cells) : IsNa(cells[i]) \/ cells[i].n = 0

(* C4 amended: for every list of parsed ROI values whose median is         *)
(* undefined or at least 0.01 in magnitude, or whose values are all 0, a   *)
(* second application of the median scaling step leaves every value        *)
(* unchanged.                                                              *)
C4_IdempotentFromHundredth ==
  (applied = 2 /\ StableUnderScaling(vals0)) => vals2 = vals1

(* a list the first application scales and the second leaves alone *)
C4_Witness ==
  /\ applied = 2
  /\ StableUnderScaling(vals0)
  /\ InUnitRange(Median(vals0))
  /\ vals1 # vals0
  /\ vals2 = vals1

(***************************************************************************)
(* C5                                                                      *)
(***************************************************************************)
(* the ROI cell as the ROI normalizer is described to read it: "%"         *)
(* removed, "," replaced by ".", parsed as a number                        *)
ParsedSourceRoi(src) == [i \in 1..Len(src.rows) |-> CleanRoiCell(src.rows[i]["ROI"])]

ExpectedRoi(src, i) == Num(Round2(MedianScale(ParsedSourceRoi(src))[i].n))

IsAscending(body) ==
  \A i \in 1..(Len(body) - 1) : body[i].ROI.n <= body[i + 1].ROI.n

ScenarioSource ==
  File({"Project", "ROI"},
       <<[c \in {"Project", "ROI"} |->
            IF c = "Project" THEN Str(ProjectA) ELSE Str(<<"5", "0", "%">>)],
         [c \in {"Project", "ROI"} |->
            IF c = "Project" THEN Str(ProjectB) ELSE Str(<<"0", ".", "2">>)]>>)

ScenarioAnswer ==
  <<[Project |-> Str(ProjectB), ROI |-> Num(20000)],
    [Project |-> Str(ProjectA), ROI |-> Num(50000)]>>

(* C5 as stated: the ROI view reports, for every source row whose ROI cell *)
(* parses as a number once "%" is removed and "," replaced by ".", that    *)
(* number (times 100 only when the median of the parsed values is strictly *)
(* between -1 and 1), in ascending order; for the rows Project A "50%" and *)
(* Project B "0.2" it answers Project B 20.0, Project A 50.0.              *)
C5_RoiViewReportsParsed ==
  req.ep = "roi" =>
    /\ resp.status = 200
    /\ IsAscending(resp.body)
    /\ \A i \in 1..Len(source.rows) :
         ~IsNa(ParsedSourceRoi(source)[i]) =>
           \E j \in 1..Len(resp.body) :
             /\ resp.body[j].Project = source.rows[i]["Project"]
             /\ resp.body[j].ROI = ExpectedRoi(source, i)
    /\ (source = ScenarioSource => resp.body = ScenarioAnswer)

(***************************************************************************)
(* C10                                                                     *)
(***************************************************************************)
MatchingRows(df, project_name) ==
  {i \in 1..Len(df.rows) : ProjectMatches(df.rows[i], project_name)}

(* C10 as stated: for every loaded table with ROI and Project columns and  *)
(* exactly one row matching Geometry 4.0, the ROI the Geometry 4.0 ROI     *)
(* view reports equals the ROI the ranking view reports for that row.      *)
C10_SameNormalization ==
  (req.ep = "roi/geometry4" /\ Cardinality(MatchingRows(loaded, Geometry40)) = 1) =>
    LET ranking == get_roi(loaded).body
    IN  /\ resp.status = 200
        /\ \E j \in 1..Len(ranking) :
             /\ Lower(Strip(ranking[j].Project.s)) = Lower(Geometry40)
             /\ ranking[j].ROI = resp.body.ROI

(***************************************************************************)
(* Requests in flight at the same time, and a source that changes under    *)
(* them.  A request loads the table in one step and answers in a later one.*)
(***************************************************************************)
ConcRow(project, roi) ==
  [c \in {"Project", "ROI"} |-> IF c = "Project" THEN Str(project) ELSE roi]

ConcSources ==
  {Absent,
   File({"Project", "ROI"}, <<ConcRow(Geometry40, Num(500)), ConcRow(ProjectA, Num(0 - 500))>>),
   File({"Project", "ROI"}, <<ConcRow(Geometry40, Num(50000))>>)}

ConcEndpoints == {"roi", "roi/geometry4", "kpis/<project_name>"}

(* a likely slip: a table kept between requests instead of reloaded *)
RequestTable_Shared(p) ==
  IF \E q \in Procs \ {p} : proc[q].pc = "loaded"
  THEN proc[CHOOSE q \in Procs \ {p} : proc[q].pc = "loaded"].df
  ELSE load_data(source)

(* df = load_data(), the first statement of every handler *)
RequestTable(p) == load_data(source)

Begin(p) ==
  /\ proc[p].pc = "idle"
  /\ \E ep \in ConcEndpoints :
       proc' = [proc EXCEPT ![p] =
                  [pc |-> "loaded", ep |-> ep,
                   name |-> IF ep = "kpis/<project_name>" THEN Geometry40 ELSE <<>>,
                   df |-> RequestTable(p), seen |-> source]]
  /\ UNCHANGED <<source, req, loaded, resp, vals0, vals1, vals2, applied, done>>

Finish(p) ==
  /\ proc[p].pc = "loaded"
  /\ done' = [ep |-> proc[p].ep, name |-> proc[p].name, seen |-> proc[p].seen,
              resp |-> View(proc[p].ep, proc[p].name, proc[p].df)]
  /\ proc' = [proc EXCEPT ![p] = Idle]
  /\ UNCHANGED <<source, req, loaded, resp, vals0, vals1, vals2, applied>>

(* the file is replaced from outside the service *)
ChangeSource ==
  /\ source' \in ConcSources \ {source}
  /\ UNCHANGED <<req, loaded, resp, vals0, vals1, vals2, applied, proc, done>>

InitConc ==
  /\ source \in ConcSources
  /\ InitRest

NextConc ==
  \/ \E p \in Procs : Begin(p)
  \/ \E p \in Procs : Finish(p)
  \/ ChangeSource

SpecConc == InitConc /\ [][NextConc]_vars

(***************************************************************************)
(* C1                                                                      *)
(***************************************************************************)
IsTable(x) ==
  /\ DOMAIN x = {"cols", "rows"}
  /\ \A i \in 1..Len(x.rows) : DOMAIN x.rows[i] = x.cols

(* C1: load_data never raises: whatever the state of the source, the call  *)
(* returns a table, and the empty table when the file is absent or cannot  *)
(* be read.                                                                *)
C1_LoadNeverRaises ==
  req.ep = "load_data" =>
    /\ IsTable(loaded)
    /\ (~source.exists \/ ~source.readable) => loaded = EmptyTable

(* a file that exists and cannot be read has been loaded *)
C1_Witness ==
  /\ req.ep = "load_data"
  /\ source.exists /\ ~source.readable
  /\ loaded = EmptyTable

(***************************************************************************)
(* C6                                                                      *)
(***************************************************************************)
DateCols == datetime_cols \cup PhaseCols

IsEmptyOrIso(c) == c = EmptyStr \/ (c.t = "str" /\ IsIsoShape(c.s))

(* C6 as stated: in every row of every table load_data returns, every date *)
(* column (Start_Date, End_Date and the four phase columns) holds the      *)
(* empty string or a text of the form YYYY-MM-DD.                          *)
C6_DateColumnsNormalized ==
  req.ep = "load_data" =>
    \A i \in 1..Len(loaded.rows) :
      \A col \in DateCols \cap loaded.cols : IsEmptyOrIso(loaded.rows[i][col])

(***************************************************************************)
(* C2                                                                      *)
(***************************************************************************)
ProjectScoped == {"kpis/<project_name>", "projects/geometry4"}

RequestedName == IF req.ep = "projects/geometry4" THEN Geometry40 ELSE req.name

(* the rows of the table the project filter keeps; a table without a       *)
(* Project column has none                                                 *)
FilterMatches(df, project_name) ==
  IF "Project" \in df.cols THEN MatchingRows(df, project_name) ELSE {}

(* C2 as stated: at every project-scoped endpoint and for every table the  *)
(* loader can return, the empty table of an absent source included, when   *)
(* the project filter matches no row the response is a 404 whose error     *)
(* message contains the requested project name.                            *)
C2_UnknownProjectIs404 ==
  (req.ep \in ProjectScoped /\ FilterMatches(loaded, RequestedName) = {}) =>
    /\ resp.status = 404
    /\ Contains(resp.body.error, RequestedName)

(***************************************************************************)
(* C3                                                                      *)
(***************************************************************************)
(* the columns each view requires *)
RequiredColumns(ep) ==
  CASE ep = "roi" -> {"ROI", "Project"}
    [] ep = "cost-saving" -> {"Project", "Total_Cost", "Total_Saving"}
    [] ep = "timeline" -> {"Project", "Start_Date", "End_Date"}
    [] ep = "maturity" -> {"Tech_Maturity"}
    [] ep = "ptd" -> {"Project", "Payback", "Tech_Maturity", "Data_Maturity"}
    [] ep = "milestones" -> {"Milestone", "Project"}
    [] ep = "px_tx_d" -> {"Project", "PxTxD"}
    [] ep = "future-savings/geometry4" -> {"Project", "Total_Cost"} \cup SavingCols
    [] ep = "roi/geometry4" -> {"ROI", "Project"}
    [] ep = "projects/geometry4" -> {"Project"}
    [] ep = "kpis/<project_name>" -> {"Project"}
    [] ep = "timeline/geometry4" -> {"Project"} \cup datetime_cols \cup PhaseCols
    [] OTHER -> {}

NamesColumn(message, col) == \E i \in 1..Len(message) : message[i] = col

(* C3 as stated: every view, when a column it requires is absent from the  *)
(* loaded table, answers 400 with an error message naming the missing      *)
(* columns.                                                                *)
C3_MissingColumnsIs400 ==
  (RequiredColumns(req.ep) \ loaded.cols # {}) =>
    /\ resp.status = 400
    /\ \A col \in RequiredColumns(req.ep) \ loaded.cols :
         NamesColumn(resp.body.error, col)

(***************************************************************************)
(* C7                                                                      *)
(***************************************************************************)
RowsWith(df, milestone) == {i \in 1..Len(df.rows) : df.rows[i]["Milestone"] = milestone}

Occurrences(s, x) == Cardinality({k \in 1..Len(s) : s[k] = x})

(* v (thousandths, a whole number of hundredths) is count / total * 100    *)
(* rounded to two decimals                                                 *)
IsPercentOf(v, count, total) ==
  /\ v % 10 = 0
  /\ 2 * (v * total - count * 100 * Unit) <= 10 * total
  /\ 2 * (count * 100 * Unit - v * total) <= 10 * total

(* C7: for every non-empty loaded table with Milestone and Project columns *)
(* the milestone view has exactly one entry per distinct Milestone value;  *)
(* its count is the number of rows with that Milestone, its value is       *)
(* count / total rows * 100 rounded to 2 decimals, and its projects are    *)
(* exactly the Project names of those rows.                                *)
C7_MilestoneDistribution ==
  (req.ep = "milestones" /\ loaded.rows # <<>>
     /\ {"Milestone", "Project"} \subseteq loaded.cols) =>
    LET body == resp.body
        n    == Len(loaded.rows)
    IN  /\ resp.status = 200
        /\ \A i \in 1..n :
             Cardinality({j \in 1..Len(body) :
                            body[j].name = loaded.rows[i]["Milestone"]}) = 1
        /\ \A j \in 1..Len(body) :
             LET held == RowsWith(loaded, body[j].name)
             IN  /\ held # {}
                 /\ body[j].count = Cardinality(held)
                 /\ IsPercentOf(body[j].value.n, Cardinality(held), n)
                 /\ Len(body[j].projects) = Cardinality(held)
                 /\ \A i \in 1..n :
                      Occurrences(body[j].projects, loaded.rows[i]["Project"])
                        = Cardinality({k \in held :
                                         loaded.rows[k]["Project"] = loaded.rows[i]["Project"]})

(* a milestone held by 2 of 3 rows: count 2, value 66.67, two names *)
C7_Witness ==
  /\ req.ep = "milestones"
  /\ Len(loaded.rows) = 3
  /\ \E j \in 1..Len(resp.body) :
       /\ resp.body[j].count = 2
       /\ resp.body[j].value = Num(66670)
       /\ Len(resp.body[j].projects) = 2

(***************************************************************************)
(* C8                                                                      *)
(***************************************************************************)
(* the date a cell holds, as text *)
DateText(c) == IF c.t = "ts" THEN StrfYmd(c.n) ELSE c.s

FirstMatch(df, project_name) ==
  df.rows[CHOOSE i \in MatchingRows(df, project_name) :
            \A k \in MatchingRows(df, project_name) : i <= k]

PhaseIndex(name) == CHOOSE k \in 1..Len(phases) : phases[k] = name

(* C8: for the first row matching the project the timeline view lists the  *)
(* phases in their fixed order, a phase exactly when its date column is    *)
(* not empty; an entry starts at its phase's date and ends at the date     *)
(* column of the phase that follows (End_Date after the last phase), null  *)
(* when that column is empty, whether or not the following phase is listed.*)
C8_PhaseTimeline ==
  (req.ep = "timeline/geometry4" /\ resp.status = 200) =>
    LET row  == FirstMatch(loaded, Geometry40)
        body == resp.body
    IN  /\ \A j \in 1..(Len(body) - 1) :
             PhaseIndex(body[j].phase) < PhaseIndex(body[j + 1].phase)
        /\ \A k \in 1..Len(phases) :
             (\E j \in 1..Len(body) : body[j].phase = phases[k])
               <=> ~(IsNa(row[phases[k]]) \/ row[phases[k]] = EmptyStr)
        /\ \A j \in 1..Len(body) :
             LET k    == PhaseIndex(body[j].phase)
                 next == IF k < Len(phases) THEN row[phases[k + 1]] ELSE row["End_Date"]
             IN  /\ body[j].start = Str(DateText(row[phases[k]]))
                 /\ body[j].end = IF IsNa(next) \/ next = EmptyStr THEN None
                                  ELSE Str(DateText(next))

(* the first phase is listed with no end, its successor left out, and a    *)
(* later phase listed all the same                                         *)
C8_Witness ==
  /\ req.ep = "timeline/geometry4"
  /\ resp.status = 200
  /\ Len(resp.body) >= 2
  /\ resp.body[1].phase = phases[1]
  /\ resp.body[1].end = None
  /\ resp.body[2].phase = phases[3]
  /\ resp.body[2].end # None

(***************************************************************************)
(* C9                                                                      *)
(***************************************************************************)
(* the response last given is the one its request would get alone against  *)
(* the source it loaded                                                    *)
AnsweredAlone(d) ==
  d.ep # "none" => d.resp = View(d.ep, d.name, load_data(d.seen))

(* C9: no request leaves behind state another request reads: however      *)
(* requests and changes of the source interleave, each response equals the *)
(* one the same request would get as the only request against the source   *)
(* contents it loaded, and no handler step changes the source.             *)
C9_RequestsIndependent ==
  [][(proc' # proc => source' = source) /\ AnsweredAlone(done')]_vars

(* a response given for a source since replaced, while another request     *)
(* holds a table loaded from yet another source                            *)
C9_Witness ==
  /\ done.ep = "roi"
  /\ done.resp.body # <<>>
  /\ done.seen # source
  /\ \E p \in Procs : proc[p].pc = "loaded" /\ proc[p].seen # done.seen

====
